---- MODULE Spec2Model ----
(***************************************************************************)
(* Model of bottleneck_analyzer.py: the Streamlit session state            *)
(* (process_steps), the commands that mutate it (add step, clear, the two  *)
(* template loaders, remove step) and the metrics the four tabs derive     *)
(* from it on every script run.                                            *)
(*                                                                         *)
(* Python floats are modelled as exact rationals [num, den] in lowest      *)
(* terms with den > 0; den = 0 stands for the IEEE results of a division   *)
(* by zero (num = 0: NaN, num = 1: +inf).  pandas labels rows 0..n-1; the  *)
(* model numbers them 1..n.                                                *)
(***************************************************************************)
EXTENDS Integers, Sequences, FiniteSets

VARIABLES process_steps, command, before, df_sorted

vars == <<process_steps, command, before, df_sorted>>

\* Adds are accepted by the model only while fewer than MaxSteps steps exist.
MaxSteps == 3

-----------------------------------------------------------------------------
(* Arithmetic on the float values *)

Abs(x) == IF x < 0 THEN -x ELSE x

RECURSIVE Gcd(_, _)
Gcd(a, b) == IF b = 0 THEN a ELSE Gcd(b, a % b)

Rat(n, d) ==
    IF d = 0 THEN [num |-> IF n > 0 THEN 1 ELSE IF n < 0 THEN -1 ELSE 0, den |-> 0]
    ELSE LET g == Gcd(Abs(n), Abs(d))
             s == IF d < 0 THEN -1 ELSE 1
         IN [num |-> (s * n) \div g, den |-> (s * d) \div g]

RatInt(n) == Rat(n, 1)

RatIsFinite(a) == a.den # 0

RatDiv(a, b) == Rat(a.num * b.den, a.den * b.num)

RatMul(a, b) == Rat(a.num * b.num, a.den * b.den)

\* a < b; any comparison with NaN is false
RatLess(a, b) ==
    IF a.den # 0 /\ b.den # 0 THEN a.num * b.den < b.num * a.den
    ELSE IF a.den = 0 /\ b.den = 0 THEN a.num # 0 /\ b.num # 0 /\ a.num < b.num
    ELSE IF a.den = 0 THEN a.num < 0
    ELSE b.num > 0

RatLessEq(a, b) ==
    /\ ~(a.den = 0 /\ a.num = 0)
    /\ ~(b.den = 0 /\ b.num = 0)
    /\ (a = b \/ RatLess(a, b))

\* Series.round(decimals): round half to even at the given number of decimals
RatRound(a, decimals) ==
    IF a.den = 0 THEN a
    ELSE LET scale == IF decimals = 1 THEN 10 ELSE 1
             n     == a.num * scale
             q     == n \div a.den
             r2    == 2 * (n % a.den)
             k     == IF r2 > a.den \/ (r2 = a.den /\ q % 2 = 1) THEN q + 1 ELSE q
         IN Rat(k, scale)

-----------------------------------------------------------------------------
(* The add-step form's inputs *)

step_name_input == {"", "Welding"}

duration_min_value == Rat(1, 10)

duration_input ==
    {d \in {Rat(0, 1), Rat(3, 2), Rat(3, 1)} : RatLessEq(duration_min_value, d)}

resources_min_value == 1

resources_input_no_min == {0, 1, 2}

resources_input == {r \in {0, 1, 2} : r >= resources_min_value}

-----------------------------------------------------------------------------
(* Commands on st.session_state.process_steps *)

Step(name, duration, resources, capacity) ==
    [name |-> name, duration |-> duration, resources |-> resources,
     capacity |-> capacity]

add_step_form_no_name_check(steps, step_name, duration, resources) ==
    Append(steps, Step(step_name, duration, resources,
                       RatDiv(RatInt(resources), duration)))

add_step_form(steps, step_name, duration, resources) ==
    IF step_name # ""
    THEN Append(steps, Step(step_name, duration, resources,
                            RatDiv(RatInt(resources), duration)))
    ELSE steps

clear_all_steps == << >>

manufacturing_example_swapped ==
    << Step("Cutting",   Rat(2, 1), 2, Rat(1, 1)),
       Step("Assembly",  Rat(4, 1), 3, Rat(75, 100)),
       Step("Welding",   Rat(3, 1), 2, Rat(67, 100)),
       Step("Testing",   Rat(3, 2), 1, Rat(67, 100)),
       Step("Packaging", Rat(1, 1), 2, Rat(2, 1)) >>

manufacturing_example ==
    << Step("Cutting",   Rat(2, 1), 2, Rat(1, 1)),
       Step("Welding",   Rat(3, 1), 2, Rat(67, 100)),
       Step("Assembly",  Rat(4, 1), 3, Rat(75, 100)),
       Step("Testing",   Rat(3, 2), 1, Rat(67, 100)),
       Step("Packaging", Rat(1, 1), 2, Rat(2, 1)) >>

service_example_typo ==
    << Step("Order Taking",     Rat(1, 1),  2, Rat(2, 1)),
       Step("Food Preparation", Rat(10, 1), 3, Rat(3, 1)),
       Step("Cooking",          Rat(8, 1),  4, Rat(5, 10)),
       Step("Quality Check",    Rat(1, 2),  1, Rat(2, 1)),
       Step("Delivery",         Rat(2, 1),  5, Rat(25, 10)) >>

service_example ==
    << Step("Order Taking",     Rat(1, 1),  2, Rat(2, 1)),
       Step("Food Preparation", Rat(10, 1), 3, Rat(3, 10)),
       Step("Cooking",          Rat(8, 1),  4, Rat(5, 10)),
       Step("Quality Check",    Rat(1, 2),  1, Rat(2, 1)),
       Step("Delivery",         Rat(2, 1),  5, Rat(25, 10)) >>

\* [s for s in process_steps if s['name'] != step_to_remove]
RECURSIVE remove_first_match(_, _)
remove_first_match(steps, step_to_remove) ==
    IF steps = << >> THEN << >>
    ELSE IF Head(steps).name = step_to_remove THEN Tail(steps)
    ELSE <<Head(steps)>> \o remove_first_match(Tail(steps), step_to_remove)

RECURSIVE remove_selected_step(_, _)
remove_selected_step(steps, step_to_remove) ==
    IF steps = << >> THEN << >>
    ELSE IF Head(steps).name # step_to_remove
         THEN <<Head(steps)>> \o remove_selected_step(Tail(steps), step_to_remove)
         ELSE remove_selected_step(Tail(steps), step_to_remove)

\* the options of the "Select step to remove" selectbox
selectbox_options(steps) == {steps[i].name : i \in 1..Len(steps)}

-----------------------------------------------------------------------------
(* Derived metrics *)

capacity_column(steps) == [i \in 1..Len(steps) |-> steps[i].capacity]

RECURSIVE idxmin_scan_last(_, _, _)
idxmin_scan_last(caps, i, best) ==
    IF i > Len(caps) THEN best
    ELSE idxmin_scan_last(caps, i + 1,
            IF RatLessEq(caps[i], caps[best]) THEN i ELSE best)

idxmin_last(caps) == IF caps = << >> THEN 0 ELSE idxmin_scan_last(caps, 2, 1)

RECURSIVE idxmin_scan(_, _, _)
idxmin_scan(caps, i, best) ==
    IF i > Len(caps) THEN best
    ELSE idxmin_scan(caps, i + 1,
            IF RatLess(caps[i], caps[best]) THEN i ELSE best)

\* Series.idxmin(): label of the first occurrence of the minimum;
\* 0 stands for the ValueError raised on an empty column
idxmin(caps) == IF caps = << >> THEN 0 ELSE idxmin_scan(caps, 2, 1)

utilization_fraction(system_throughput, capacity) ==
    RatRound(RatDiv(system_throughput, capacity), 1)

utilization_inverted(system_throughput, capacity) ==
    RatRound(RatMul(RatDiv(capacity, system_throughput), RatInt(100)), 1)

\* (system_throughput / df['capacity'] * 100).round(1), one row
utilization(system_throughput, capacity) ==
    RatRound(RatMul(RatDiv(system_throughput, capacity), RatInt(100)), 1)

cycle_time(system_throughput) ==
    IF RatLess(RatInt(0), system_throughput)
    THEN RatDiv(RatInt(1), system_throughput)
    ELSE Rat(1, 0)

NoMetrics(outcome) ==
    [outcome |-> outcome, bottleneck_idx |-> 0, bottleneck_name |-> "",
     system_throughput |-> Rat(0, 0), utilization |-> << >>,
     cycle_time |-> Rat(0, 0)]

\* the computation the tabs share once their guard has passed
metrics(steps) ==
    LET caps           == capacity_column(steps)
        bottleneck_idx == idxmin(caps)
    IN IF bottleneck_idx = 0 THEN NoMetrics("ValueError")
       ELSE LET system_throughput == caps[bottleneck_idx]
            IN [outcome           |-> "metrics",
                bottleneck_idx    |-> bottleneck_idx,
                bottleneck_name   |-> steps[bottleneck_idx].name,
                system_throughput |-> system_throughput,
                utilization       |-> [i \in 1..Len(steps) |->
                                         utilization(system_throughput, caps[i])],
                cycle_time        |-> cycle_time(system_throughput)]

\* df.sort_values('capacity'): the row labels in ascending order of capacity.
\* The default kind is 'quicksort', which is not a stable sort: rows of equal
\* capacity may come out in any order, so this is the set of possible results.
RECURSIVE sort_values(_, _)
sort_values(caps, rows) ==
    IF rows = {} THEN {<< >>}
    ELSE UNION { { <<r>> \o rest : rest \in sort_values(caps, rows \ {r}) } :
                 r \in {m \in rows : \A j \in rows : ~RatLess(caps[j], caps[m])} }

\* the sorted frame tab2 builds on a script run (none when its guard fails)
tab2_df_sorted(steps) ==
    IF steps # << >>
    THEN sort_values(capacity_column(steps), 1..Len(steps))
    ELSE {<< >>}

\* df_sorted.iloc[1] when len(df_sorted) > 1; 0 when no secondary bottleneck
\* is shown
next_bottleneck(sorted) == IF Len(sorted) > 1 THEN sorted[2] ELSE 0

tab1(steps) == IF steps # << >> THEN metrics(steps) ELSE NoMetrics("info")

tab2_unguarded(steps) == metrics(steps)

tab2(steps) == IF steps # << >> THEN metrics(steps) ELSE NoMetrics("info")

tab3(steps) == IF steps # << >> THEN metrics(steps) ELSE NoMetrics("info")

tab4(steps) == IF steps # << >> THEN metrics(steps) ELSE NoMetrics("info")

\* one run of the script: what each tab shows for the session state
render(steps) ==
    [tab1 |-> tab1(steps), tab2 |-> tab2(steps),
     tab3 |-> tab3(steps), tab4 |-> tab4(steps)]

-----------------------------------------------------------------------------
(* State machine: one action per command, each followed by the rerun *)

Command(op, step_name, duration, resources) ==
    [op |-> op, step_name |-> step_name, duration |-> duration,
     resources |-> resources]

Init ==
    /\ process_steps = << >>
    /\ command = Command("start", "", Rat(0, 0), 0)
    /\ before = << >>
    /\ df_sorted = << >>

AddStep ==
    \E step_name \in step_name_input, duration \in duration_input,
       resources \in resources_input :
        /\ step_name # "" => Len(process_steps) < MaxSteps
        /\ process_steps' = add_step_form(process_steps, step_name, duration, resources)
        /\ command' = Command("add", step_name, duration, resources)
        /\ before' = process_steps
        /\ df_sorted' \in tab2_df_sorted(process_steps')

ClearAllSteps ==
    /\ process_steps' = clear_all_steps
    /\ command' = Command("clear", "", Rat(0, 0), 0)
    /\ before' = process_steps
    /\ df_sorted' \in tab2_df_sorted(process_steps')

LoadManufacturingExample ==
    /\ process_steps' = manufacturing_example
    /\ command' = Command("load_manufacturing", "", Rat(0, 0), 0)
    /\ before' = process_steps
    /\ df_sorted' \in tab2_df_sorted(process_steps')

LoadServiceExample ==
    /\ process_steps' = service_example
    /\ command' = Command("load_service", "", Rat(0, 0), 0)
    /\ before' = process_steps
    /\ df_sorted' \in tab2_df_sorted(process_steps')

RemoveSelectedStep ==
    /\ process_steps # << >>
    /\ \E step_to_remove \in selectbox_options(process_steps) :
        /\ process_steps' = remove_selected_step(process_steps, step_to_remove)
        /\ command' = Command("remove", step_to_remove, Rat(0, 0), 0)
        /\ before' = process_steps
        /\ df_sorted' \in tab2_df_sorted(process_steps')

Next ==
    \/ AddStep
    \/ ClearAllSteps
    \/ LoadManufacturingExample
    \/ LoadServiceExample
    \/ RemoveSelectedStep

Spec == Init /\ [][Next]_vars

\* every command ends in st.rerun(): the page always shows the metrics of the
\* current session state
view == render(process_steps)

-----------------------------------------------------------------------------
(* Properties *)

Rows == 1..Len(process_steps)

Tabs == LET v == view IN {v.tab1, v.tab2, v.tab3, v.tab4}

AnalysisTabs == LET v == view IN {v.tab2, v.tab3, v.tab4}

IsMinCapacity(i) ==
    \A j \in Rows : ~RatLess(process_steps[j].capacity, process_steps[i].capacity)

\* C1: in every non-empty state the reported bottleneck is a step whose stored
\* capacity is the minimum over all steps, and among the steps sharing that
\* minimum it is the earliest in insertion order.
C1_BottleneckIsStableArgmin ==
    process_steps # << >> =>
        \A t \in Tabs :
            /\ t.bottleneck_idx \in Rows
            /\ IsMinCapacity(t.bottleneck_idx)
            /\ \A j \in 1..(t.bottleneck_idx - 1) :
                   process_steps[j].capacity # process_steps[t.bottleneck_idx].capacity
            /\ t.system_throughput = process_steps[t.bottleneck_idx].capacity
            /\ t.bottleneck_name = process_steps[t.bottleneck_idx].name

C1_Witness ==
    \E i, j \in Rows :
        /\ i < j
        /\ IsMinCapacity(i)
        /\ process_steps[j].capacity = process_steps[i].capacity
        /\ process_steps[j].name # process_steps[i].name
        /\ \A t \in Tabs : t.bottleneck_idx = i

\* C2: after any sequence of commands every step held in the model has
\* capacity exactly equal to resources / duration.
C2_CapacityIsResourcesOverDuration ==
    \A i \in Rows :
        process_steps[i].capacity =
            RatDiv(RatInt(process_steps[i].resources), process_steps[i].duration)

\* C3: in every non-empty state the utilization computed for the bottleneck
\* step is exactly 100.
C3_BottleneckUtilizationIs100 ==
    process_steps # << >> =>
        \A t \in AnalysisTabs :
            t.utilization[t.bottleneck_idx] = RatInt(100)

C3_Witness ==
    /\ Len(process_steps) >= 2
    /\ \E t \in AnalysisTabs :
           /\ t.utilization[t.bottleneck_idx] = RatInt(100)
           /\ \E i \in Rows : t.utilization[i] # RatInt(100)

AllCapacitiesPositive ==
    \A i \in Rows : RatLess(RatInt(0), process_steps[i].capacity)

\* C4 as stated: in every non-empty state with strictly positive capacities,
\* utilization(step) >= 100.0 for every step that is not the bottleneck.
C4_NonBottleneckUtilizationAtLeast100 ==
    (process_steps # << >> /\ AllCapacitiesPositive) =>
        \A t \in AnalysisTabs :
            \A i \in Rows \ {t.bottleneck_idx} :
                RatLessEq(RatInt(100), t.utilization[i])

\* C4 as amended: in every non-empty state with strictly positive capacities,
\* utilization(step) <= 100.0 for every step that is not the bottleneck.
C4_NonBottleneckUtilizationAtMost100 ==
    (process_steps # << >> /\ AllCapacitiesPositive) =>
        \A t \in AnalysisTabs :
            \A i \in Rows \ {t.bottleneck_idx} :
                RatLessEq(t.utilization[i], RatInt(100))

C4_Witness ==
    /\ AllCapacitiesPositive
    /\ \E t \in AnalysisTabs :
           /\ \E i \in Rows \ {t.bottleneck_idx} :
                  RatLess(t.utilization[i], RatInt(100))
           /\ \E i \in Rows \ {t.bottleneck_idx} :
                  t.utilization[i] = RatInt(100)

KnownNames ==
    step_name_input
        \cup selectbox_options(manufacturing_example)
        \cup selectbox_options(service_example)

KeepsOtherNames(steps, step_to_remove) ==
    LET Differs(s) == s.name # step_to_remove
    IN SelectSeq(steps, Differs)

\* C5: removing by name leaves exactly the steps whose name differs from the
\* argument, in their original order with their fields unchanged: every step
\* carrying the name goes, and a name no step carries changes nothing.
C5_RemoveDropsEveryMatch ==
    /\ command.op = "remove" =>
           process_steps = KeepsOtherNames(before, command.step_name)
    /\ \A n \in KnownNames :
           /\ remove_selected_step(process_steps, n) = KeepsOtherNames(process_steps, n)
           /\ n \notin selectbox_options(process_steps) =>
                  remove_selected_step(process_steps, n) = process_steps

C5_Witness ==
    /\ command.op = "remove"
    /\ Cardinality({i \in 1..Len(before) : before[i].name = command.step_name}) >= 2
    /\ process_steps # << >>
    /\ Len(process_steps) = Len(before) - 2
    /\ before[2].name # command.step_name

Inputs(steps) ==
    [i \in 1..Len(steps) |->
        <<steps[i].name, steps[i].duration, steps[i].resources>>]

\* C6: loading a preset replaces the whole sequence by the five steps of that
\* preset, in the listed order with the listed names, durations and resources.
C6_LoadReplacesWithPreset ==
    /\ command.op = "load_manufacturing" =>
           Inputs(process_steps) =
               << <<"Cutting",   Rat(20, 10), 2>>,
                  <<"Welding",   Rat(30, 10), 2>>,
                  <<"Assembly",  Rat(40, 10), 3>>,
                  <<"Testing",   Rat(15, 10), 1>>,
                  <<"Packaging", Rat(10, 10), 2>> >>
    /\ command.op = "load_service" =>
           Inputs(process_steps) =
               << <<"Order Taking",     Rat(10, 10),  2>>,
                  <<"Food Preparation", Rat(100, 10), 3>>,
                  <<"Cooking",          Rat(80, 10),  4>>,
                  <<"Quality Check",    Rat(5, 10),   1>>,
                  <<"Delivery",         Rat(20, 10),  5>> >>

C6_Witness ==
    /\ command.op = "load_manufacturing"
    /\ \E i \in 1..Len(before) : before[i].name = "Welding"
    /\ \E i \in 1..Len(before) : before[i].name = "Delivery"
    /\ Len(process_steps) = 5

\* C7: right after loading the manufacturing preset the reported bottleneck
\* is Welding, which ties with Testing on the minimum capacity and comes
\* first; right after loading the service preset it is Food Preparation.
C7_PresetBottlenecks ==
    /\ command.op = "load_manufacturing" =>
           \A t \in Tabs :
               /\ t.bottleneck_name = "Welding"
               /\ process_steps[t.bottleneck_idx].name = "Welding"
               /\ \E j \in Rows :
                      /\ j > t.bottleneck_idx
                      /\ process_steps[j].name = "Testing"
                      /\ process_steps[j].capacity = t.system_throughput
    /\ command.op = "load_service" =>
           \A t \in Tabs :
               /\ t.bottleneck_name = "Food Preparation"
               /\ process_steps[t.bottleneck_idx].name = "Food Preparation"

C7_Witness ==
    /\ command.op = "load_manufacturing"
    /\ before = service_example
    /\ \A t \in Tabs : t.bottleneck_name = "Welding"

\* C8: clear leaves the model empty, and while the model is empty every tab
\* shows the prompt to add steps; no tab ever takes a minimum over an empty
\* column.
C8_EmptyModelShowsPrompt ==
    /\ command.op = "clear" => process_steps = << >>
    /\ process_steps = << >> => \A t \in Tabs : t.outcome = "info"
    /\ \A t \in Tabs : t.outcome # "ValueError"

C8_Witness ==
    /\ command.op = "clear"
    /\ Len(before) >= 2
    /\ process_steps = << >>
    /\ \A t \in Tabs : t.outcome = "info"

\* C9: an add with an empty name changes nothing; an add with a non-empty
\* name appends exactly one step with the given name, duration and resources
\* and leaves the steps already present, and their order, unchanged.
C9_AddAppendsOrIgnores ==
    command.op = "add" =>
        IF command.step_name = ""
        THEN process_steps = before
        ELSE /\ Len(process_steps) = Len(before) + 1
             /\ SubSeq(process_steps, 1, Len(before)) = before
             /\ Inputs(process_steps)[Len(process_steps)] =
                    <<command.step_name, command.duration, command.resources>>

C9_Witness ==
    /\ command.op = "add"
    /\ command.step_name = ""
    /\ Len(before) >= 2
    /\ process_steps = before

\* C10: after any sequence of commands every step has duration > 0,
\* resources >= 1 and a non-empty name; so the system throughput of a
\* non-empty model is strictly positive and the cycle time is the finite
\* value 1 / system_throughput.
C10_StepInputsValid ==
    /\ \A i \in Rows :
           /\ RatLess(RatInt(0), process_steps[i].duration)
           /\ process_steps[i].resources >= 1
           /\ process_steps[i].name # ""
    /\ process_steps # << >> =>
           \A t \in AnalysisTabs :
               /\ RatLess(RatInt(0), t.system_throughput)
               /\ RatIsFinite(t.cycle_time)
               /\ RatMul(t.cycle_time, t.system_throughput) = RatInt(1)

C10_Witness ==
    /\ command.op = "remove"
    /\ \E i \in Rows : process_steps[i].name = "Welding"
    /\ \E i \in Rows : process_steps[i].name = "Cooking"
    /\ \A t \in AnalysisTabs :
           /\ RatIsFinite(t.cycle_time)
           /\ RatLess(RatInt(0), t.system_throughput)

\* (capacity, insertion position) order: the order of a stable ascending sort
StableBefore(i, j) ==
    \/ RatLess(process_steps[i].capacity, process_steps[j].capacity)
    \/ /\ process_steps[i].capacity = process_steps[j].capacity
       /\ i < j

\* C11: with at least two steps the secondary bottleneck is the step at
\* position 1 of the steps ordered by capacity ascending, ties broken by
\* insertion order; so it is a different step from the bottleneck and its
\* capacity is >= the bottleneck's.  With fewer than two steps no secondary
\* bottleneck is reported.
C11_SecondaryBottleneckIsStableSecond ==
    /\ Len(process_steps) >= 2 =>
           /\ next_bottleneck(df_sorted) \in Rows
           /\ Cardinality({i \in Rows : StableBefore(i, next_bottleneck(df_sorted))}) = 1
           /\ \A t \in AnalysisTabs :
                  /\ next_bottleneck(df_sorted) # t.bottleneck_idx
                  /\ RatLessEq(t.system_throughput,
                               process_steps[next_bottleneck(df_sorted)].capacity)
    /\ Len(process_steps) < 2 => next_bottleneck(df_sorted) = 0

\* the part of C11 that does not depend on the order of ties
C11_SecondaryCapacityAtLeastBottleneck ==
    /\ Len(process_steps) >= 2 =>
           /\ next_bottleneck(df_sorted) \in Rows
           /\ \A t \in AnalysisTabs :
                  RatLessEq(t.system_throughput,
                            process_steps[next_bottleneck(df_sorted)].capacity)
    /\ Len(process_steps) < 2 => next_bottleneck(df_sorted) = 0

====
